---- MODULE Spec2Model ----
(***************************************************************************)
(* A model of the gee HTTP gateway: the configuration and its route table, *)
(* the per-connection Service built by ServiceBuilder, and Service::call,  *)
(* which serves a static file or builds an Environ and calls the           *)
(* application.  Strings are TLA+ strings; a String of the program is the  *)
(* string of its characters.                                               *)
(***************************************************************************)
EXTENDS Integers, Sequences, FiniteSets, TLC

VARIABLES registered, config, builder, services, last

vars == <<registered, config, builder, services, last>>

(***************************************************************************)
(* Bounds of the model.                                                    *)
(***************************************************************************)
MaxRoutes == 2
MaxPathLen == 2
MaxConns == 2

(***************************************************************************)
(* Option<T> and the outcome of a call that may panic.                     *)
(***************************************************************************)
None == [tag |-> "None"]
Some(v) == [tag |-> "Some", val |-> v]
Panic == [tag |-> "Panic"]

Conns == 1 .. MaxConns

(***************************************************************************)
(* str::starts_with, character by character.                               *)
(***************************************************************************)
RECURSIVE starts_with(_, _)
starts_with(s, p) ==
    IF p = "" THEN TRUE
    ELSE IF s = "" THEN FALSE
    ELSE /\ SubSeq(s, 1, 1) = SubSeq(p, 1, 1)
         /\ starts_with(SubSeq(s, 2, Len(s)), SubSeq(p, 2, Len(p)))

(***************************************************************************)
(* HashMap<String, String>: its entries, and the order in which iter()     *)
(* yields them.  The order is not specified by the library (the hasher is  *)
(* seeded randomly per process), so it is any permutation of the keys; a   *)
(* clone copies the table and keeps the order.                             *)
(***************************************************************************)
RECURSIVE hashmap_entries(_)
hashmap_entries(regs) ==
    IF regs = <<>> THEN <<>>
    ELSE LET n == Len(regs)
             rest == hashmap_entries(SubSeq(regs, 1, n - 1))
         IN  (regs[n][1] :> regs[n][2]) @@ rest

Perms(S) ==
    {o \in [1 .. Cardinality(S) -> S] :
        \A i, j \in 1 .. Cardinality(S) : i # j => o[i] # o[j]}

HashMaps(regs) ==
    {[entries |-> hashmap_entries(regs), order |-> o] :
        o \in Perms(DOMAIN hashmap_entries(regs))}

iter(m) == [i \in 1 .. Len(m.order) |-> <<m.order[i], m.entries[m.order[i]]>>]

(***************************************************************************)
(* Service (upstream/service.rs): root_dir and static_routes.              *)
(***************************************************************************)
\* is_static_request with all() for any().
is_static_request_all(svc, path) ==
    \A i \in 1 .. Len(iter(svc.static_routes)) :
        starts_with(path, iter(svc.static_routes)[i][1])

\* is_static_request with a key lookup for the prefix test.
is_static_request_exact(svc, path) ==
    \E i \in 1 .. Len(iter(svc.static_routes)) :
        path = iter(svc.static_routes)[i][1]

is_static_request(svc, path) ==
    \E i \in 1 .. Len(iter(svc.static_routes)) :
        starts_with(path, iter(svc.static_routes)[i][1])

DefaultDocument == "index.html"

\* resolve_static_path that strips one character more than the prefix.
resolve_static_path_skips_separator(svc, path) ==
    LET routes == iter(svc.static_routes)
        matching == {i \in 1 .. Len(routes) : starts_with(path, routes[i][1])}
    IN  IF matching = {} THEN None
        ELSE LET static_route == routes[CHOOSE i \in matching : \A j \in matching : i <= j]
                 static_path == static_route[2]
                                 \o SubSeq(path, Len(static_route[1]) + 2, Len(path))
             IN  IF static_path = "" THEN Panic
                 ELSE IF SubSeq(static_path, Len(static_path), Len(static_path)) = "/"
                      THEN Some(static_path \o DefaultDocument)
                      ELSE Some(static_path)

\* resolve_static_path that never appends the default document.
resolve_static_path_without_default(svc, path) ==
    LET routes == iter(svc.static_routes)
        matching == {i \in 1 .. Len(routes) : starts_with(path, routes[i][1])}
    IN  IF matching = {} THEN None
        ELSE LET static_route == routes[CHOOSE i \in matching : \A j \in matching : i <= j]
                 static_path == static_route[2]
                                 \o SubSeq(path, Len(static_route[1]) + 1, Len(path))
             IN  IF static_path = "" THEN Panic ELSE Some(static_path)

\* resolve_static_path that tests the last character of the request path.
resolve_static_path_tests_request_path(svc, path) ==
    LET routes == iter(svc.static_routes)
        matching == {i \in 1 .. Len(routes) : starts_with(path, routes[i][1])}
    IN  IF matching = {} THEN None
        ELSE LET static_route == routes[CHOOSE i \in matching : \A j \in matching : i <= j]
                 static_path == static_route[2]
                                 \o SubSeq(path, Len(static_route[1]) + 1, Len(path))
             IN  IF path = "" THEN Panic
                 ELSE IF SubSeq(path, Len(path), Len(path)) = "/"
                      THEN Some(static_path \o DefaultDocument)
                      ELSE Some(static_path)

resolve_static_path(svc, path) ==
    LET routes == iter(svc.static_routes)
        matching == {i \in 1 .. Len(routes) : starts_with(path, routes[i][1])}
    IN  IF matching = {} THEN None
        ELSE LET static_route == routes[CHOOSE i \in matching : \A j \in matching : i <= j]
                 static_path == static_route[2]
                                 \o SubSeq(path, Len(static_route[1]) + 1, Len(path))
             IN  IF static_path = "" THEN Panic
                 ELSE IF SubSeq(static_path, Len(static_path), Len(static_path)) = "/"
                      THEN Some(static_path \o DefaultDocument)
                      ELSE Some(static_path)

(***************************************************************************)
(* The request as hyper hands it over: method, request target, headers,    *)
(* version.  Uri::path is the target up to the first '?', Uri::query what  *)
(* follows it, if there is one.                                            *)
(***************************************************************************)
RECURSIVE find_char(_, _, _)
find_char(s, c, i) ==
    IF i > Len(s) THEN 0
    ELSE IF SubSeq(s, i, i) = c THEN i
    ELSE find_char(s, c, i + 1)

uri_path(target) ==
    LET q == find_char(target, "?", 1)
    IN  IF q = 0 THEN target ELSE SubSeq(target, 1, q - 1)

\* uri_query that keeps the '?'.
uri_query_keeps_mark(target) ==
    LET q == find_char(target, "?", 1)
    IN  IF q = 0 THEN None ELSE Some(SubSeq(target, q, Len(target)))

uri_query(target) ==
    LET q == find_char(target, "?", 1)
    IN  IF q = 0 THEN None ELSE Some(SubSeq(target, q + 1, Len(target)))

unwrap_or(opt, default) == IF opt.tag = "Some" THEN opt.val ELSE default

headers_get(headers, name) ==
    IF name \in DOMAIN headers THEN Some(headers[name]) ELSE None

\* A header value whose bytes are not visible ASCII; HeaderValue::to_str fails on it.
OpaqueValue == "\\xff"

to_str(value) == IF value = OpaqueValue THEN None ELSE Some(value)

\* HeaderValue::from_name: the header value whose bytes are the header's name.
HeaderValue_from_name(name) == name

CONTENT_TYPE == "content-type"
CONTENT_LENGTH == "content-length"

(***************************************************************************)
(* Environ (handlers/python/environ.rs).                                   *)
(***************************************************************************)
Environ_new(request_method, script_name, path_info, query_string, content_type, content_length, server_name, server_port, server_protocol) ==
    [request_method |-> request_method,
     script_name |-> script_name,
     path_info |-> path_info,
     query_string |-> query_string,
     content_type |-> content_type,
     content_length |-> content_length,
     server_name |-> server_name,
     server_port |-> server_port,
     server_protocol |-> server_protocol,
     http_variables |-> <<>>,
     wsgi_version |-> <<1, 0>>,
     wsgi_url_scheme |-> "HTTPS",
     wsgi_multithread |-> FALSE,
     wsgi_multiprocess |-> FALSE,
     wsgi_run_once |-> FALSE]

from_request(req) ==
    Environ_new(
        req.method,
        "app",
        uri_path(req.target),
        unwrap_or(uri_query(req.target), ""),
        unwrap_or(to_str(unwrap_or(headers_get(req.headers, "content-type"),
                                   HeaderValue_from_name(CONTENT_TYPE))), ""),
        unwrap_or(to_str(unwrap_or(headers_get(req.headers, "content-length"),
                                   HeaderValue_from_name(CONTENT_LENGTH))), ""),
        "",
        "",
        req.version)

(***************************************************************************)
(* The collaborators (downstream/file.rs, downstream/application.rs).      *)
(* fs::read either yields the file's contents or fails.                    *)
(***************************************************************************)
Ok(v) == [tag |-> "Ok", val |-> v]
Err == [tag |-> "Err"]

\* serve_file that answers a failed read with empty contents.
serve_file_empty_on_error(path, read_result) ==
    IF read_result.tag = "Ok" THEN Some(read_result.val) ELSE Some("")

serve_file(path, read_result) ==
    IF read_result.tag = "Ok" THEN Some(read_result.val) ELSE None

\* call_application that has nothing to return for a request.
call_application_none(environ) == None

call_application(environ) == Some("Response from Python")

(***************************************************************************)
(* Service::call.  read_result is what fs::read returns should serve_file  *)
(* be reached.  The outcome records what the handler did: the branch, the  *)
(* resolved path, the Environ, the collaborators called in order, the      *)
(* result taken and the response.                                          *)
(* A panic (expect on None, unwrap on the last character of an empty path) *)
(* ends the handler without a response.                                    *)
(***************************************************************************)
Response(status, body) == [status |-> status, body |-> body]

\* Service::call that turns to the application when the file cannot be read.
Service_call_falls_back(svc, req, read_result) ==
    LET path == uri_path(req.target)
        is_static == is_static_request(svc, path)
        resolved == IF is_static THEN resolve_static_path(svc, path) ELSE None
        panicked == is_static /\ resolved.tag # "Some"
        file_result == IF is_static /\ ~panicked
                       THEN serve_file(resolved.val, read_result) ELSE None
        to_application == ~panicked /\ file_result = None
        environ == IF to_application THEN Some(from_request(req)) ELSE None
        request_result ==
            IF to_application THEN call_application(environ.val) ELSE file_result
        response ==
            IF request_result.tag = "Some"
            THEN Response(200, request_result.val)
            ELSE Response(404, "")
    IN  [req |-> req,
         is_static |-> is_static,
         static_path |-> resolved,
         read |-> IF is_static /\ ~panicked THEN Some(read_result) ELSE None,
         environ |-> environ,
         invoked |-> IF panicked THEN "none"
                     ELSE IF to_application THEN "call_application" ELSE "serve_file",
         calls |-> (IF is_static /\ ~panicked THEN <<"serve_file">> ELSE <<>>)
                   \o (IF to_application THEN <<"call_application">> ELSE <<>>),
         request_result |-> request_result,
         state |-> IF panicked THEN "Panicked" ELSE "Responded",
         response |-> IF panicked THEN None ELSE Some(response)]

Service_call(svc, req, read_result) ==
    LET path == uri_path(req.target)
        is_static == is_static_request(svc, path)
        resolved == IF is_static THEN resolve_static_path(svc, path) ELSE None
        panicked == is_static /\ resolved.tag # "Some"
        environ == IF is_static THEN None ELSE Some(from_request(req))
        request_result ==
            IF is_static
            THEN IF panicked THEN None ELSE serve_file(resolved.val, read_result)
            ELSE call_application(environ.val)
        response ==
            IF request_result.tag = "Some"
            THEN Response(200, request_result.val)
            ELSE Response(404, "")
    IN  [req |-> req,
         is_static |-> is_static,
         static_path |-> resolved,
         read |-> IF is_static /\ ~panicked THEN Some(read_result) ELSE None,
         environ |-> environ,
         invoked |-> IF panicked THEN "none"
                     ELSE IF is_static THEN "serve_file" ELSE "call_application",
         calls |-> (IF is_static /\ ~panicked THEN <<"serve_file">> ELSE <<>>)
                   \o (IF is_static THEN <<>> ELSE <<"call_application">>),
         request_result |-> request_result,
         state |-> IF panicked THEN "Panicked" ELSE "Responded",
         response |-> IF panicked THEN None ELSE Some(response)]

(***************************************************************************)
(* Config::new and Config::new_default (config.rs).                        *)
(***************************************************************************)
Config_new(address, port, root_dir, static_routes, ignored_files, application, application_name) ==
    [address |-> address,
     port |-> port,
     root_dir |-> root_dir,
     static_routes |-> static_routes,
     ignored_files |-> ignored_files,
     application |-> application,
     application_name |-> application_name]

\* HashMap::contains_key.
contains_key(m, k) == \E i \in 1 .. Len(m.order) : m.order[i] = k

\* is_static_path that accepts every path a key starts.
is_static_path_prefix(cfg, path) ==
    /\ cfg.static_routes # None
    /\ \E i \in 1 .. Len(cfg.static_routes.val.order) :
           starts_with(path, cfg.static_routes.val.order[i])

\* Config::is_static_path, on a Config whose static_routes is an Option.
is_static_path(cfg, path) ==
    /\ cfg.static_routes # None
    /\ contains_key(cfg.static_routes.val, path)

DefaultRoutes == << <<"/static", "./static/">> >>

(***************************************************************************)
(* The inputs: the configuration documents and the requests.               *)
(***************************************************************************)
\* The static routes of the unit test of is_static_request.
TestRoutes == << <<"/static", "./static">> >>

\* One prefix registered twice, with different directories.
ConflictRoutes == << <<"/a", "r/">>, <<"/a", "">> >>

RoutePairs == {<<"/", "r/">>, <<"/a", "">>}

RECURSIVE SeqsUpTo(_, _)
SeqsUpTo(S, n) ==
    IF n = 0 THEN {<<>>}
    ELSE LET shorter == SeqsUpTo(S, n - 1)
         IN  shorter \cup {Append(q, x) : q \in shorter, x \in S}

Tables == SeqsUpTo(RoutePairs, MaxRoutes) \cup {DefaultRoutes, TestRoutes, ConflictRoutes}

\* ignored_files and application of the configuration: the default
\* configuration, one that ignores text files, one that names an application.
ConfigChoices ==
    {[ignored_files |-> None, application |-> None],
     [ignored_files |-> Some(<<"*.txt">>), application |-> None],
     [ignored_files |-> None, application |-> Some("app.py")]}

Alphabet == {"/", "a"}

RECURSIVE StringsUpTo(_)
StringsUpTo(n) ==
    IF n = 0 THEN {""}
    ELSE LET shorter == StringsUpTo(n - 1)
         IN  shorter \cup {s \o c : s \in shorter, c \in Alphabet}

Paths ==
    {"/static", "/static/", "/static/a.txt", "/static2", "/static/file.json",
     "/", "/app/profile", "/missing"}
    \cup {"/" \o s : s \in StringsUpTo(MaxPathLen - 1)}

Targets ==
    Paths \cup {"/app/profile?id=5", "/app/profile?", "/static/a.txt?id=5"}

HeaderSets ==
    {<<>>,
     ("x-foo" :> "bar") @@ ("content-type" :> "text/plain"),
     ("content-length" :> "5"),
     ("content-type" :> OpaqueValue),
     ("x-foo" :> "bar")}

Request(target, headers) ==
    [method |-> "GET", target |-> target, headers |-> headers, version |-> "HTTP/1.1"]

\* Every target without headers, and every set of headers on one target.
Requests ==
    {Request(t, <<>>) : t \in Targets}
    \cup {Request("/app/profile?id=5", h) : h \in HeaderSets}

ReadResults == {Err, Ok("hello")}

(***************************************************************************)
(* The gateway.  registered is the configuration's static routes in the    *)
(* order they were written; config is the Config built from them; builder  *)
(* is the ServiceBuilder that Server::start hands to hyper; services holds *)
(* the Service of each open connection; last is the outcome of the most    *)
(* recent Service::call with the connection it ran on.                     *)
(***************************************************************************)
Init ==
    /\ registered \in Tables
    /\ \E m \in HashMaps(registered), choice \in ConfigChoices :
           config = Config_new("127.0.0.1", 8080, ".", m, choice.ignored_files,
                               choice.application,
                               IF choice.application = None THEN None ELSE Some("app"))
    /\ builder = None
    /\ services = [c \in Conns |-> None]
    /\ last = None

\* Server::start: serve with a ServiceBuilder holding a clone of the config.
Start ==
    /\ builder = None
    /\ builder' = Some([config |-> config])
    /\ UNCHANGED <<registered, config, services, last>>

\* ServiceBuilder::call that gives the Service a new, empty route table.
ServiceBuilder_call_empty_routes(c) ==
    /\ builder # None
    /\ services[c] = None
    /\ services' = [services EXCEPT ![c] =
                        Some([root_dir |-> builder.val.config.root_dir,
                              static_routes |-> [entries |-> <<>>, order |-> <<>>]])]
    /\ UNCHANGED <<registered, config, builder, last>>

\* ServiceBuilder::call: a new connection gets its own Service.
ServiceBuilder_call(c) ==
    /\ builder # None
    /\ services[c] = None
    /\ services' = [services EXCEPT ![c] =
                        Some([root_dir |-> builder.val.config.root_dir,
                              static_routes |-> builder.val.config.static_routes])]
    /\ UNCHANGED <<registered, config, builder, last>>

\* Service::call that keeps its result in a place all requests share and
\* does not reset it when the collaborator returns None.
Call_shared_result(c) ==
    /\ services[c] # None
    /\ \E req \in Requests, read_result \in ReadResults :
           LET out == Service_call(services[c].val, req, read_result)
               stale == last # None /\ out.state = "Responded" /\ out.request_result = None
           IN  last' = Some([conn |-> c]
                            @@ (IF stale
                                THEN [out EXCEPT !.request_result = last.val.request_result,
                                                 !.response = last.val.response]
                                ELSE out))
    /\ UNCHANGED <<registered, config, builder, services>>

\* Service::call on connection c.
Call(c) ==
    /\ services[c] # None
    /\ \E req \in Requests, read_result \in ReadResults :
           last' = Some([conn |-> c] @@ Service_call(services[c].val, req, read_result))
    /\ UNCHANGED <<registered, config, builder, services>>

Next ==
    \/ Start
    \/ \E c \in Conns : ServiceBuilder_call(c)
    \/ \E c \in Conns : Call(c)

Spec == Init /\ [][Next]_vars

(***************************************************************************)
(* Config::is_static_path on its own: the configuration is any of the      *)
(* configurations above, or one without static routes, and last is the     *)
(* path asked about with the answer.                                       *)
(***************************************************************************)
ConfigInit ==
    /\ registered \in Tables
    /\ \E routes \in {None} \cup {Some(m) : m \in HashMaps(registered)},
          choice \in ConfigChoices :
           config = Config_new("127.0.0.1", 8080, ".", routes, choice.ignored_files,
                               choice.application,
                               IF choice.application = None THEN None ELSE Some("app"))
    /\ builder = None
    /\ services = [c \in Conns |-> None]
    /\ last = None

Config_is_static_path ==
    /\ \E path \in Paths :
           last' = Some([path |-> path, is_static_path |-> is_static_path(config, path)])
    /\ UNCHANGED <<registered, config, builder, services>>

ConfigNext == Config_is_static_path

ConfigSpec == ConfigInit /\ [][ConfigNext]_vars

(***************************************************************************)
(* Vocabulary of the properties.                                           *)
(***************************************************************************)
Handled == last # None

Responded == Handled /\ last.val.state = "Responded"

LastPath == uri_path(last.val.req.target)

\* The static routes of the Service that handled the last request.
LastRoutes == services[last.val.conn].val.static_routes

\* p is a raw string prefix of s.
IsPrefix(p, s) == Len(p) <= Len(s) /\ SubSeq(s, 1, Len(p)) = p

MatchingPrefixes(routes, path) == {k \in DOMAIN routes.entries : IsPrefix(k, path)}

\* The keys of the registrations in the order of their first registration.
RECURSIVE InsertionOrder(_)
InsertionOrder(regs) ==
    IF regs = <<>> THEN <<>>
    ELSE LET n == Len(regs)
             before == InsertionOrder(SubSeq(regs, 1, n - 1))
         IN  IF \E i \in 1 .. Len(before) : before[i] = regs[n][1]
             THEN before
             ELSE Append(before, regs[n][1])

IsDefaultTable == config.static_routes.entries = hashmap_entries(DefaultRoutes)

RECURSIVE glob_match(_, _)
glob_match(pattern, s) ==
    IF pattern = "" THEN s = ""
    ELSE IF SubSeq(pattern, 1, 1) = "*"
         THEN \/ glob_match(SubSeq(pattern, 2, Len(pattern)), s)
              \/ s # "" /\ glob_match(pattern, SubSeq(s, 2, Len(s)))
         ELSE /\ s # ""
              /\ SubSeq(pattern, 1, 1) = SubSeq(s, 1, 1)
              /\ glob_match(SubSeq(pattern, 2, Len(pattern)), SubSeq(s, 2, Len(s)))

Ignored(path) ==
    /\ config.ignored_files # None
    /\ \E i \in 1 .. Len(config.ignored_files.val) :
           glob_match(config.ignored_files.val[i], path)

(***************************************************************************)
(* C1: when two distinct registered prefixes both start the request path,  *)
(* the path is resolved through the one that was registered first.         *)
(***************************************************************************)
C1_FirstRegisteredWins ==
    LET first_wins ==
            resolve_static_path(
                [static_routes |-> [entries |-> LastRoutes.entries,
                                    order |-> InsertionOrder(registered)]],
                LastPath)
    IN  (/\ Responded
         /\ Cardinality(MatchingPrefixes(LastRoutes, LastPath)) >= 2
         /\ first_wins.tag = "Some")
            => last.val.static_path = first_wins

C3_NoDuplicatedSeparator ==
    (Handled /\ IsDefaultTable)
        => /\ LastPath = "/static/a.txt" => last.val.static_path = Some("./static/a.txt")
           /\ LastPath = "/static/" => last.val.static_path = Some("./static/index.html")

(***************************************************************************)
(* C3, as amended: with /static mapped to ./static/, /static/a.txt         *)
(* resolves to ./static//a.txt and /static/ to ./static//index.html: the   *)
(* root and the rest of the path are joined as they are.                   *)
(***************************************************************************)
C3_JoinKeepsBothSeparators ==
    (Handled /\ IsDefaultTable)
        => /\ LastPath = "/static/a.txt" => last.val.static_path = Some("./static//a.txt")
           /\ LastPath = "/static/" => last.val.static_path = Some("./static//index.html")

C3_Witness ==
    /\ Responded
    /\ IsDefaultTable
    /\ LastPath = "/static/"
    /\ last.val.invoked = "serve_file"

(***************************************************************************)
(* C4: with /static mapped to ./static/, the path /static resolves to      *)
(* ./static/ and index.html is not appended.                               *)
(***************************************************************************)
C4_ExactPrefixUnchanged ==
    (Handled /\ IsDefaultTable /\ LastPath = "/static")
        => last.val.static_path = Some("./static/")

(***************************************************************************)
(* C4, as amended: with /static mapped to ./static/, the path /static      *)
(* resolves to ./static/index.html: the root ends with the separator, so   *)
(* the default document is appended.                                       *)
(***************************************************************************)
C4_ExactPrefixGetsDefaultDocument ==
    (Handled /\ IsDefaultTable /\ LastPath = "/static")
        => last.val.static_path = Some("./static/" \o "index.html")

C4_Witness ==
    /\ Responded
    /\ IsDefaultTable
    /\ LastPath = "/static"
    /\ last.val.invoked = "serve_file"

(***************************************************************************)
(* C5: the response is 200 with the collaborator's bytes exactly when the  *)
(* collaborator that was invoked returned Some(bytes), and 404 with an     *)
(* empty body exactly when it returned None; there is no other status.     *)
(* The file reader returns Some(contents) when the read succeeds and None  *)
(* when it fails.                                                          *)
(***************************************************************************)
C5_StatusFollowsOutcome ==
    Responded =>
        LET out == last.val
            rsp == out.response.val
        IN  /\ rsp.status \in {200, 404}
            /\ rsp.status = 200 <=> out.request_result # None
            /\ rsp.status = 200 => rsp.body = out.request_result.val
            /\ rsp.status = 404 => rsp.body = ""
            /\ out.invoked = "serve_file" =>
                   /\ out.read.val = Err => rsp = Response(404, "")
                   /\ out.read.val # Err => rsp = Response(200, out.read.val.val)
            /\ out.invoked = "call_application" => out.read = None

C5_Witness ==
    /\ Responded
    /\ last.val.invoked = "serve_file"
    /\ last.val.read = Some(Err)
    /\ last.val.response = Some(Response(404, ""))

(***************************************************************************)
(* C6: the Environ's content_type is the empty string when the request has *)
(* no Content-Type header and content_length is the empty string when it   *)
(* has no Content-Length header; a header that is present gives the field  *)
(* its value.                                                              *)
(***************************************************************************)
C6_AbsentHeadersAreEmpty ==
    (Handled /\ last.val.environ # None) =>
        LET headers == last.val.req.headers
            environ == last.val.environ.val
        IN  /\ environ.content_type =
                   IF "content-type" \in DOMAIN headers
                   THEN headers["content-type"] ELSE ""
            /\ environ.content_length =
                   IF "content-length" \in DOMAIN headers
                   THEN headers["content-length"] ELSE ""

(***************************************************************************)
(* C7: the Environ's header variables correspond to the request's headers: *)
(* every header of the request has an entry with its value, and there are  *)
(* no other entries.                                                       *)
(***************************************************************************)
C7_HeaderVariablesMatchHeaders ==
    (Handled /\ last.val.environ # None) =>
        LET headers == last.val.req.headers
            variables == last.val.environ.val.http_variables
        IN  /\ \A name \in DOMAIN headers :
                   \E k \in DOMAIN variables : variables[k] = headers[name]
            /\ Cardinality(DOMAIN variables) = Cardinality(DOMAIN headers)

(***************************************************************************)
(* C8: the Environ handed to the application has path_info equal to the    *)
(* path of the request target and query_string equal to what follows the   *)
(* first '?', or the empty string when the target has no '?'.              *)
(***************************************************************************)
HasChar(s, c) == \E i \in 1 .. Len(s) : SubSeq(s, i, i) = c

C8_PathInfoAndQueryString ==
    (Handled /\ last.val.invoked = "call_application") =>
        LET target == last.val.req.target
            environ == last.val.environ.val
        IN  /\ ~HasChar(environ.path_info, "?")
            /\ IF HasChar(target, "?")
               THEN target = environ.path_info \o "?" \o environ.query_string
               ELSE target = environ.path_info /\ environ.query_string = ""
            /\ target = "/app/profile?id=5" =>
                   environ.path_info = "/app/profile" /\ environ.query_string = "id=5"

C8_Witness ==
    /\ Responded
    /\ last.val.invoked = "call_application"
    /\ last.val.req.target = "/app/profile?id=5"
    /\ last.val.environ.val.query_string = "id=5"

(***************************************************************************)
(* C9: a static request whose resolved path matches one of the ignored     *)
(* file patterns is answered 404 and the file reader returns None for it,  *)
(* even when the file can be read.                                         *)
(***************************************************************************)
C9_IgnoredFilesNeverServed ==
    (Responded /\ last.val.invoked = "serve_file" /\ Ignored(last.val.static_path.val))
        => /\ last.val.request_result = None
           /\ last.val.response = Some(Response(404, ""))

(***************************************************************************)
(* C10: a request path is static exactly when some static prefix of the    *)
(* Service is a raw string prefix of it.                                   *)
(***************************************************************************)
C10_StaticIffRawPrefix ==
    Handled => (last.val.is_static <=> MatchingPrefixes(LastRoutes, LastPath) # {})

C10_Witness ==
    /\ Handled
    /\ LastRoutes.entries = hashmap_entries(TestRoutes)
    /\ LastPath = "/static2"
    /\ last.val.is_static

(***************************************************************************)
(* C11: handling a request never aborts: every request that Service::call  *)
(* receives ends in the Responded state with a response of status 200 or   *)
(* 404, whatever the route table, the path and the collaborators' results. *)
(***************************************************************************)
C11_NeverAborts ==
    Handled =>
        /\ last.val.state = "Responded"
        /\ last.val.response # None
        /\ last.val.response.val.status \in {200, 404}

(***************************************************************************)
(* C12: the route table is not changed while serving: the static routes of *)
(* the configuration, of the ServiceBuilder and of the Service of every    *)
(* connection are the table built from the registrations at startup.       *)
(***************************************************************************)
C12_RouteTableNeverMutated ==
    /\ config.static_routes.entries = hashmap_entries(registered)
    /\ builder # None => builder.val.config.static_routes = config.static_routes
    /\ \A c \in Conns :
           services[c] # None => services[c].val.static_routes = config.static_routes

C12_Witness ==
    /\ Handled
    /\ \A c \in Conns : services[c] # None
    /\ config.static_routes.entries # <<>>

(***************************************************************************)
(* C13: a configuration that registers one static prefix twice with        *)
(* different directories is rejected when the route table is built: the    *)
(* server is never started with it and no request is served.               *)
(***************************************************************************)
ConflictingRegistrations ==
    \E i, j \in 1 .. Len(registered) :
        /\ i < j
        /\ registered[i][1] = registered[j][1]
        /\ registered[i][2] # registered[j][2]

C13_ConflictingPrefixesRejected ==
    ConflictingRegistrations =>
        /\ builder = None
        /\ \A c \in Conns : services[c] = None
        /\ last = None

(***************************************************************************)
(* C14: Config::is_static_path(path) is true exactly when static_routes is *)
(* present and path is equal to one of its keys; a path that only extends  *)
(* a key is not a static path, and no path is when static_routes is None.  *)
(***************************************************************************)
C14_StaticPathIffExactKey ==
    last # None =>
        (last.val.is_static_path <=>
            /\ config.static_routes # None
            /\ last.val.path \in DOMAIN config.static_routes.val.entries)

C14_Witness ==
    /\ last # None
    /\ config.static_routes # None
    /\ "/static" \in DOMAIN config.static_routes.val.entries
    /\ last.val.path = "/static/a.txt"
    /\ ~last.val.is_static_path

EndsWithSeparator(s) == s # "" /\ SubSeq(s, Len(s), Len(s)) = "/"

Joined(routes, prefix, path) ==
    routes.entries[prefix] \o SubSeq(path, Len(prefix) + 1, Len(path))

Expected(routes, prefix, path) ==
    IF EndsWithSeparator(Joined(routes, prefix, path))
    THEN Joined(routes, prefix, path) \o "index.html"
    ELSE Joined(routes, prefix, path)

C16_ResolvedIsRootPlusRest ==
    (Handled /\ MatchingPrefixes(LastRoutes, LastPath) # {}) =>
        \E prefix \in MatchingPrefixes(LastRoutes, LastPath) :
            last.val.static_path = Some(Expected(LastRoutes, prefix, LastPath))

(***************************************************************************)
(* C17: when the request path is equal to the matched prefix, the resolved *)
(* path is the prefix's directory itself when the directory does not end   *)
(* with the separator, and the directory followed by index.html when it    *)
(* does.                                                                   *)
(***************************************************************************)
C17_ExactPrefixYieldsRoot ==
    (Handled /\ MatchingPrefixes(LastRoutes, LastPath) = {LastPath}) =>
        LET root == LastRoutes.entries[LastPath]
        IN  last.val.static_path =
                Some(IF EndsWithSeparator(root) THEN root \o "index.html" ELSE root)

(***************************************************************************)
(* C19: is_static_request(path) is true exactly when resolve_static_path   *)
(* yields Some, so the expect in Service::call never meets None.           *)
(***************************************************************************)
C19_StaticIffResolves ==
    Handled =>
        LET svc == services[last.val.conn].val
        IN  /\ is_static_request(svc, LastPath)
                   <=> resolve_static_path(svc, LastPath).tag = "Some"
            /\ last.val.is_static => last.val.static_path # None

(***************************************************************************)
(* C20: a path that resolve_static_path returns is not empty and does not  *)
(* end with the separator, and the file reader is asked to read such a     *)
(* path only.                                                              *)
(***************************************************************************)
C20_ResolvedPathNamesAFile ==
    Handled =>
        /\ last.val.static_path.tag = "Some" =>
               /\ last.val.static_path.val # ""
               /\ ~EndsWithSeparator(last.val.static_path.val)
        /\ last.val.read # None => last.val.static_path.tag = "Some"

C20_Witness ==
    /\ Responded
    /\ last.val.read # None
    /\ DOMAIN LastRoutes.entries = {"/"}
    /\ EndsWithSeparator(Joined(LastRoutes, "/", LastPath))
    /\ last.val.static_path = Some(Joined(LastRoutes, "/", LastPath) \o "index.html")

(***************************************************************************)
(* C18: whatever requests were handled before it and on whichever          *)
(* connections, a request is classified, resolved and answered as it would *)
(* be by a Service that was just built from the configuration and has      *)
(* handled nothing, given the same result of the file read; handling a     *)
(* request leaves every connection's Service as it was built.              *)
(***************************************************************************)
Alone == [root_dir |-> config.root_dir, static_routes |-> config.static_routes]

C21_NotFoundOnlyFromFailedRead ==
    Handled =>
        /\ (last.val.response # None /\ last.val.response.val.status = 404) =>
               /\ last.val.is_static
               /\ MatchingPrefixes(LastRoutes, LastPath) # {}
               /\ last.val.read = Some(Err)
               /\ last.val.calls = <<"serve_file">>
        /\ MatchingPrefixes(LastRoutes, LastPath) = {} =>
               /\ Responded
               /\ last.val.calls = <<"call_application">>
               /\ last.val.read = None
               /\ last.val.response = Some(Response(200, "Response from Python"))

C21_Witness ==
    /\ Responded
    /\ DOMAIN LastRoutes.entries # {}
    /\ MatchingPrefixes(LastRoutes, LastPath) = {}
    /\ config.application = None
    /\ last.val.response = Some(Response(200, "Response from Python"))

====
